---- MODULE Spec2Model ----
(***************************************************************************)
(* Model of src/main.py: AWSImageRecognition.process, one run.             *)
(*                                                                         *)
(* Numbers.  Normalised coordinates are multiples of 1/Denominator and are *)
(* held as their numerators.  The envelope starts at float('inf') /        *)
(* float('-inf'), so a coordinate is an extended number <<sign, n>>:       *)
(* <<0, n>> is the finite value n/Denominator, <<1, 0>> is +inf and        *)
(* <<-1, 0>> is -inf.  Pixel values produced by int() are integers.  The   *)
(* shifts are "(integer) / 2" and everything crop_image derives from them  *)
(* is a multiple of 1/2 pixel: shift and rect hold HALF-PIXEL counts       *)
(* (value 33 is 16.5 px), so a coordinate is integral iff it is even.      *)
(***************************************************************************)
EXTENDS Integers, Sequences, FiniteSets

\* ---- bounds of the model -------------------------------------------------
Denominator == 1      \* box fields are k/Denominator, k in 0..Denominator
MaxBoxes == 2         \* distinct bounding boxes in one detector response
MaxLabelCount == 2    \* labels in one detector response
MaxW == 4             \* image widths 1..MaxW (and 100)
MaxH == 4             \* image heights 1..MaxH (and 200)

\* ---- program constants ---------------------------------------------------
RATIO == <<3, 2>>
MaxLabels == 10

VARIABLES
    pc,            \* the call process (lines 26-36) makes next
    error,         \* the exception that ended the run, or "none"
    steps,         \* the calls process has made, in order
    nlabels,       \* labels of the response iterated so far (line 68)
    seen,          \* the bounding boxes iterated so far (lines 69-70)
    top_left,      \* lines 65, 76
    bottom_right,  \* lines 66, 77
    img,           \* img.size (line 32), <<0, 0>> before the fetch
    area,          \* area_width, area_height (line 33)
    shift,         \* shift_horizontal, shift_vertical (line 34), half-pixels
    rect,          \* (left, top, right, bottom) of line 97, half-pixels
    saveCalls      \* calls of save_image (line 36)

vars == <<pc, error, steps, nlabels, seen, top_left, bottom_right,
          img, area, shift, rect, saveCalls>>

\* ---- inputs --------------------------------------------------------------
Coord == 0..Denominator
Boxes == [Left : Coord, Top : Coord, Width : Coord, Height : Coord]
Widths == (1..MaxW) \cup {100}
Heights == (1..MaxH) \cup {200}

\* ---- extended numbers (Python floats with +-inf) -------------------------
PosInf == <<1, 0>>
NegInf == <<-1, 0>>
Fin(n) == <<0, n>>
IsFinite(a) == a[1] = 0
Less(a, b) == a[1] < b[1] \/ (a[1] = 0 /\ b[1] = 0 /\ a[2] < b[2])
\* Python's min(a, b) / max(a, b): the first argument unless the second
\* is strictly smaller / larger.
min(a, b) == IF Less(b, a) THEN b ELSE a
max(a, b) == IF Less(a, b) THEN b ELSE a

\* min / max on plain numbers (crop_image's clamps)
imin(a, b) == IF b < a THEN b ELSE a
imax(a, b) == IF b > a THEN b ELSE a

Did(s) == \E i \in DOMAIN steps : steps[i] = s

\* ---- detect_labels_and_coordinates ---------------------------------------
BoxRight(box) == box.Left + box.Width
BoxBottom(box) == box.Top + box.Height

UpdateTopLeft_maxTop(tl, box) ==
    <<min(tl[1], Fin(box.Left)), max(tl[2], Fin(box.Top))>>
UpdateTopLeft(tl, box) ==
    <<min(tl[1], Fin(box.Left)), min(tl[2], Fin(box.Top))>>
UpdateBottomRight(br, box) ==
    <<max(br[1], Fin(BoxRight(box))), max(br[2], Fin(BoxBottom(box)))>>

\* ---- get_image_dimensions / crop_image: int(coord * dimension) -----------
\* coord is finite and >= 0, so int() truncation is the floor.
ToPixel(coord, dimension) == (coord[2] * dimension) \div Denominator

get_image_dimensions(size, tl, br) ==
    LET left == ToPixel(tl[1], size[1])
        top == ToPixel(tl[2], size[2])
        right == ToPixel(br[1], size[1])
        bottom == ToPixel(br[2], size[2])
    IN <<right - left, bottom - top>>

\* ---- _calculate_shifts ---------------------------------------------------
\* math.floor(x / RATIO[0] * RATIO[1]); x is a non-negative pixel count, so
\* the quotient is exact or at least 1/3 away from an integer and float
\* rounding cannot move the floor.
FloorRatio(x, r) == (x * r[2]) \div r[1]

\* result in half-pixels: (target - size) / 2 px is (target - size) halves
calculate_shifts_ratioSwapped(width, height) ==
    IF width < height
    THEN <<FloorRatio(height, <<RATIO[2], RATIO[1]>>) - width, 0>>
    ELSE IF width > height
         THEN <<0, FloorRatio(width, <<RATIO[2], RATIO[1]>>) - height>>
         ELSE <<0, 0>>
calculate_shifts(width, height) ==
    IF width < height
    THEN <<FloorRatio(height, RATIO) - width, 0>>
    ELSE IF width > height
         THEN <<0, FloorRatio(width, RATIO) - height>>
         ELSE <<0, 0>>

\* ---- crop_image ----------------------------------------------------------
\* all results in half-pixels
crop_image_fromUnclamped(size, tl, br, sh) ==
    LET left == ToPixel(tl[1], size[1])
        top == ToPixel(tl[2], size[2])
        right == ToPixel(br[1], size[1])
        bottom == ToPixel(br[2], size[2])
        new_width == 2 * (right - left) + sh[1] * 2
        new_height == 2 * (bottom - top) + sh[2] * 2
        left2 == imax(0, 2 * left - sh[1])
        right2 == imin(2 * size[1], (2 * left - sh[1]) + new_width)
        top2 == imax(0, 2 * top - sh[2])
        bottom2 == imin(2 * size[2], (2 * top - sh[2]) + new_height)
    IN <<left2, top2, right2, bottom2>>
crop_image(size, tl, br, sh) ==
    LET left == ToPixel(tl[1], size[1])
        top == ToPixel(tl[2], size[2])
        right == ToPixel(br[1], size[1])
        bottom == ToPixel(br[2], size[2])
        new_width == 2 * (right - left) + sh[1] * 2
        new_height == 2 * (bottom - top) + sh[2] * 2
        left2 == imax(0, 2 * left - sh[1])
        right2 == imin(2 * size[1], left2 + new_width)
        top2 == imax(0, 2 * top - sh[2])
        bottom2 == imin(2 * size[2], top2 + new_height)
    IN <<left2, top2, right2, bottom2>>

\* PIL's crop given right < left or bottom < top
Inverted(r) == r[3] < r[1] \/ r[4] < r[2]

\* ---- the run -------------------------------------------------------------
Init ==
    /\ pc = "detect"
    /\ error = "none"
    /\ steps = <<>>
    /\ nlabels = 0
    /\ seen = {}
    /\ top_left = <<PosInf, PosInf>>
    /\ bottom_right = <<NegInf, NegInf>>
    /\ img = <<0, 0>>
    /\ area = <<0, 0>>
    /\ shift = <<0, 0>>
    /\ rect = <<0, 0, 0, 0>>
    /\ saveCalls = 0

\* line 63: the detect_labels call; lines 65-66: the sentinels
DetectOk ==
    /\ pc = "detect"
    /\ pc' = "aggregate"
    /\ steps' = Append(steps, "detect")
    /\ top_left' = <<PosInf, PosInf>>
    /\ bottom_right' = <<NegInf, NegInf>>
    /\ UNCHANGED <<error, nlabels, seen, img, area, shift, rect, saveCalls>>

\* line 63 raises: nothing catches it
DetectFails ==
    /\ pc = "detect"
    /\ pc' = "aborted"
    /\ error' = "DetectionError"
    /\ steps' = Append(steps, "detect")
    /\ UNCHANGED <<nlabels, seen, top_left, bottom_right, img, area, shift,
                   rect, saveCalls>>

\* line 68: the next label of the response
NextLabel ==
    /\ pc = "aggregate"
    /\ nlabels < MaxLabelCount
    /\ nlabels < MaxLabels
    /\ nlabels' = nlabels + 1
    /\ UNCHANGED <<pc, error, steps, seen, top_left, bottom_right, img, area,
                   shift, rect, saveCalls>>

\* lines 69-77: the next instance of the current label
NextInstance ==
    /\ pc = "aggregate"
    /\ nlabels >= 1
    /\ \E box \in Boxes :
        /\ Cardinality(seen \cup {box}) <= MaxBoxes
        /\ seen' = seen \cup {box}
        /\ top_left' = UpdateTopLeft(top_left, box)
        /\ bottom_right' = UpdateBottomRight(bottom_right, box)
    /\ UNCHANGED <<pc, error, steps, nlabels, img, area, shift, rect,
                   saveCalls>>

\* line 79: the response is exhausted; it is a local and is gone on return
ReturnEnvelope ==
    /\ pc = "aggregate"
    /\ pc' = "fetch"
    /\ steps' = Append(steps, "aggregate")
    /\ seen' = {}
    /\ nlabels' = 0
    /\ UNCHANGED <<error, top_left, bottom_right, img, area, shift, rect,
                   saveCalls>>

\* lines 29-32: get_object, read, Image.open
FetchOk ==
    /\ pc = "fetch"
    /\ \E w \in Widths, h \in Heights : img' = <<w, h>>
    /\ pc' = "dimensions"
    /\ steps' = Append(steps, "fetch")
    /\ UNCHANGED <<error, nlabels, seen, top_left, bottom_right, area, shift,
                   rect, saveCalls>>

\* a fetch that is tried again after a failure
FetchRetries ==
    /\ pc = "fetch"
    /\ error' = "StorageError"
    /\ steps' = Append(steps, "fetch")
    /\ pc' = IF Len(steps) < 4 THEN "fetch" ELSE "aborted"
    /\ UNCHANGED <<nlabels, seen, top_left, bottom_right, img, area, shift,
                   rect, saveCalls>>
FetchFails ==
    /\ pc = "fetch"
    /\ pc' = "aborted"
    /\ error' = "StorageError"
    /\ steps' = Append(steps, "fetch")
    /\ UNCHANGED <<nlabels, seen, top_left, bottom_right, img, area, shift,
                   rect, saveCalls>>

\* line 33: int(inf * width) raises OverflowError
GetImageDimensions ==
    /\ pc = "dimensions"
    /\ steps' = Append(steps, "dimensions")
    /\ IF IsFinite(top_left[1])
       THEN /\ area' = get_image_dimensions(img, top_left, bottom_right)
            /\ pc' = "shift"
            /\ UNCHANGED error
       ELSE /\ pc' = "aborted"
            /\ error' = "OverflowError"
            /\ UNCHANGED area
    /\ UNCHANGED <<nlabels, seen, top_left, bottom_right, img, shift, rect,
                   saveCalls>>

\* line 34
CalculateShifts ==
    /\ pc = "shift"
    /\ shift' = calculate_shifts(area[1], area[2])
    /\ pc' = "crop"
    /\ steps' = Append(steps, "shift")
    /\ UNCHANGED <<error, nlabels, seen, top_left, bottom_right, img, area,
                   rect, saveCalls>>

\* line 35; img.crop (line 97) on an inverted box raises ValueError or
\* returns an empty image, depending on the Pillow release
CropImage ==
    /\ pc = "crop"
    /\ rect' = crop_image(img, top_left, bottom_right, shift)
    /\ steps' = Append(steps, "crop")
    /\ \/ /\ pc' = "save"
          /\ UNCHANGED error
       \/ /\ Inverted(rect')
          /\ pc' = "aborted"
          /\ error' = "ValueError"
    /\ UNCHANGED <<nlabels, seen, top_left, bottom_right, img, area, shift,
                   saveCalls>>

\* line 36, lines 101-104
SaveImage ==
    /\ pc = "save"
    /\ saveCalls' = saveCalls + 1
    /\ steps' = Append(steps, "persist")
    /\ pc' = "done"
    /\ UNCHANGED <<error, nlabels, seen, top_left, bottom_right, img, area,
                   shift, rect>>

Next ==
    \/ DetectOk
    \/ DetectFails
    \/ NextLabel
    \/ NextInstance
    \/ ReturnEnvelope
    \/ FetchOk
    \/ FetchFails
    \/ GetImageDimensions
    \/ CalculateShifts
    \/ CropImage
    \/ SaveImage

Spec == Init /\ [][Next]_vars

\* ---- properties ----------------------------------------------------------
\* the envelope's pixel corners, as get_image_dimensions and crop_image
\* convert them
PxLeft == ToPixel(top_left[1], img[1])
PxTop == ToPixel(top_left[2], img[2])
PxRight == ToPixel(bottom_right[1], img[1])
PxBottom == ToPixel(bottom_right[2], img[2])

SetMin(S) == CHOOSE x \in S : \A y \in S : x <= y
SetMax(S) == CHOOSE x \in S : \A y \in S : x >= y

\* C1: when detect_labels_and_coordinates returns after a non-empty set of
\* boxes, top_left is the coordinate-wise minimum of all (left, top) and
\* bottom_right the coordinate-wise maximum of all (left+width, top+height),
\* whatever the order in which the labels and instances were iterated.
C1_EnvelopeIsMinMax ==
    [][(pc = "aggregate" /\ pc' = "fetch" /\ seen # {}) =>
          /\ top_left' = <<Fin(SetMin({b.Left : b \in seen})),
                           Fin(SetMin({b.Top : b \in seen}))>>
          /\ bottom_right' = <<Fin(SetMax({b.Left + b.Width : b \in seen})),
                               Fin(SetMax({b.Top + b.Height : b \in seen}))>>
      ]_vars
\* two different boxes from two labels have been aggregated, and the second
\* one seen does not alone decide the envelope
C1_Witness ==
    /\ pc = "aggregate"
    /\ nlabels = 2
    /\ Cardinality(seen) = 2
    /\ \E a, b \in seen :
          /\ a.Left < b.Left
          /\ a.Top > b.Top
          /\ a.Left + a.Width < b.Left + b.Width
          /\ a.Top + a.Height > b.Top + b.Height
    /\ IsFinite(top_left[1])

\* C2: with zero bounding boxes the run reports "no detections found" before
\* pixel conversion: the sentinel envelope never reaches
\* get_image_dimensions or crop_image, nothing is saved, and a run that
\* stops (other than on a failed fetch) stops with that error.
EmptyDetection == Did("aggregate") /\ top_left = <<PosInf, PosInf>>
C2_EmptyDetectionReported ==
    EmptyDetection =>
        /\ ~Did("dimensions")
        /\ ~Did("crop")
        /\ saveCalls = 0
        /\ (pc = "aborted" /\ error # "StorageError") =>
               error = "NoDetectionsFound"

\* C3: the rectangle handed to the crop primitive satisfies
\* 0 <= left <= right <= image_width and 0 <= top <= bottom <= image_height.
C3_CropWithinImage ==
    Did("crop") =>
        /\ 0 <= rect[1] /\ rect[1] <= rect[3] /\ rect[3] <= 2 * img[1]
        /\ 0 <= rect[2] /\ rect[2] <= rect[4] /\ rect[4] <= 2 * img[2]

\* C4: _calculate_shifts returns ((floor(height*2/3) - width)/2, 0) when
\* width < height, (0, (floor(width*2/3) - height)/2) when width > height and
\* (0, 0) when they are equal; at most one component is non-zero; and
\* (100, 200) gives (16.5, 0).
C4_ShiftFormula ==
    Did("shift") =>
        LET w == area[1]
            h == area[2]
        IN /\ w < h => shift = <<((h * 2) \div 3) - w, 0>>
           /\ w > h => shift = <<0, ((w * 2) \div 3) - h>>
           /\ w = h => shift = <<0, 0>>
           /\ shift[1] = 0 \/ shift[2] = 0
           /\ (w = 100 /\ h = 200) => shift = <<33, 0>>
C4_Witness ==
    /\ Did("shift")
    /\ area = <<100, 200>>
    /\ shift = <<33, 0>>

\* C5: the crop rectangle contains the envelope's own pixel rectangle
\* intersected with the image: the shift only pads, it never cuts in.
C5_CropContainsEnvelope ==
    Did("crop") =>
        /\ rect[1] <= 2 * imax(0, PxLeft)
        /\ rect[2] <= 2 * imax(0, PxTop)
        /\ rect[3] >= 2 * imin(img[1], PxRight)
        /\ rect[4] >= 2 * imin(img[2], PxBottom)

\* C6: a crop rectangle with right <= left or bottom <= top is reported as
\* invalid and save_image is never called for it.
DegenerateCrop == Did("crop") /\ (rect[3] <= rect[1] \/ rect[4] <= rect[2])
C6_DegenerateCropNotSaved ==
    DegenerateCrop => (saveCalls = 0 /\ pc \notin {"save", "done"})

\* C7: both shift components are non-negative for positive envelope pixel
\* dimensions.
C7_ShiftNonNegative ==
    (Did("shift") /\ area[1] > 0 /\ area[2] > 0) =>
        (shift[1] >= 0 /\ shift[2] >= 0)

\* C8: the rectangle handed to the crop primitive has integer pixel
\* coordinates (an even number of half-pixels).
C8_CropIsIntegral ==
    Did("crop") => \A i \in 1..4 : rect[i] % 2 = 0

\* C9: crop_image derives right and bottom from the clamped left and top:
\* left' = max(0, left - shift_h), right' = min(image_width, left' +
\* new_width), likewise top and bottom; and when the envelope's pixel left
\* is 0 and shift_h > 0, left' = 0 and right' - left' = min(new_width,
\* image_width).
C9_ClampThenRederive ==
    Did("crop") =>
        LET new_width == 2 * (PxRight - PxLeft) + 2 * shift[1]
            new_height == 2 * (PxBottom - PxTop) + 2 * shift[2]
        IN /\ rect[1] = imax(0, 2 * PxLeft - shift[1])
           /\ rect[3] = imin(2 * img[1], rect[1] + new_width)
           /\ rect[2] = imax(0, 2 * PxTop - shift[2])
           /\ rect[4] = imin(2 * img[2], rect[2] + new_height)
           /\ (PxLeft = 0 /\ shift[1] > 0) =>
                 /\ rect[1] = 0
                 /\ rect[3] - rect[1] = imin(new_width, 2 * img[1])
\* the left edge was clamped and the window shifted: the crop is wider than
\* the envelope plus one shift, and still inside the image
C9_Witness ==
    /\ Did("crop")
    /\ PxLeft = 0
    /\ shift[1] > 0
    /\ rect[1] = 0
    /\ rect[3] = 2 * (PxRight - PxLeft) + 2 * shift[1]
    /\ rect[3] < 2 * img[1]

\* C10: the steps of a run are a prefix of detect, aggregate, fetch,
\* dimensions, shift, crop, persist (each at most once, in that order); a
\* failed detection or fetch is the last step of its run and nothing is
\* saved.
Pipeline ==
    <<"detect", "aggregate", "fetch", "dimensions", "shift", "crop",
      "persist">>
C10_FixedOrderAbortOnFailure ==
    /\ Len(steps) <= Len(Pipeline)
    /\ steps = SubSeq(Pipeline, 1, Len(steps))
    /\ Did("persist") <=> saveCalls = 1
    /\ saveCalls <= 1
    /\ error = "DetectionError" =>
          (pc = "aborted" /\ steps = <<"detect">> /\ saveCalls = 0)
    /\ error = "StorageError" =>
          /\ pc = "aborted"
          /\ steps = <<"detect", "aggregate", "fetch">>
          /\ saveCalls = 0
C10_Witness ==
    /\ pc = "aborted"
    /\ error = "StorageError"
    /\ steps = <<"detect", "aggregate", "fetch">>
    /\ IsFinite(top_left[1])

====
